---------------------------- MODULE Spec2Model ----------------------------
(***************************************************************************)
(* SmartCrop Pakistan, ml-pipeline: the yield forecast                     *)
(* (models/yield_predictor.py) and the satellite index pipeline            *)
(* (satellite_processor.py).                                               *)
(*                                                                         *)
(* Numbers.  The source computes in IEEE doubles; the model computes the   *)
(* same expressions exactly, in integers at a fixed scale, and rounds      *)
(* where the source rounds (round(x, 2), round(x, 1), int(x)).  Binary     *)
(* rounding error of the doubles themselves is not represented.            *)
(*   index values (NDVI, NDWI, bands)  : twentieths       (Unit per 1.0)   *)
(*   reference yields                  : tenths of a ton                   *)
(*   a point estimate                  : 1/40000 ton      (YieldUnit)      *)
(*   interval bounds before rounding   : 1/20000000 ton   (FineUnit)       *)
(*   everything a forecast reports     : hundredths of a ton               *)
(***************************************************************************)
EXTENDS Integers, Sequences, FiniteSets

VARIABLES
    rng,        \* state of numpy's process-global generator (np.random)
    farm,       \* the FarmFeatures of the forecast requests
    locals,     \* YieldPredictor.predict's locals at its return, unrounded
    forecast,   \* the YieldPrediction returned, when the last call was predict
    first,      \* the YieldPrediction the first predict call returned
    series,     \* the list returned, when the last call was predict_timeseries
    image,      \* the SatelliteImage given to process_image
    indices,    \* a VegetationIndices: process_image's result, or a caller's
    classified, \* classify_health_zones' result (zones, stats) and its masks
    score,      \* compute_health_score's result, in tenths
    features,   \* the array the last encode or prepare_features call returned
    raised,     \* the exception the last call raised, None when it returned
    segmented,  \* the network's output for an image and what segment made of it
    db,         \* the backend's tables: the stored farms and yield predictions
    response    \* the last backend request and the answer it got

vars == <<rng, farm, locals, forecast, first, series,
          image, indices, classified, score, features, raised,
          segmented, db, response>>

\* an optional value: None, or Some(x) whose value is Val(o)
None == << >>
Some(x) == <<x>>
Val(o) == o[1]

-----------------------------------------------------------------------------
(* Bounds of the model *)

\* farm.current_ndvi ranges over NdviLo/10 .. NdviHi/10
NdviLo == 2
NdviHi == 7
\* farm.current_ndwi ranges over -NdwiBelow/10 .. NdwiAbove/10
NdwiBelow == 3
NdwiAbove == 3
\* a draw of the generator: the standard normal deviate is 2*d, |d| <= DrawMax
DrawMax == 2
\* number of states of the generator
RngPeriod == 7
\* predict_timeseries is called with days_ahead in 0 .. MaxDaysAhead
MaxDaysAhead == 8
\* a band value of a processed scene is BandStep * j / 20, -BandBelow <= j <= BandAbove
BandStep == 5
BandBelow == 1
BandAbove == 5
\* rasters given to classify_health_zones hold 1 .. MaxPixels pixels, with
\* NDVI in 0 .. NdviTop/10 and NDWI in -NdwiDown/10 .. NdwiUp/10
MaxPixels == 2
NdviTop == 7
NdwiDown == 3
NdwiUp == 1
\* means given to compute_health_score are in -MeanMax/20 .. MeanMax/20
MeanMax == 20
\* farm.area_hectares of a forecast request ranges over -AreaMax .. AreaMax
AreaMax == 1
\* a band or a cloud mask of a scene of any shapes holds 1 .. MaxShape pixels
MaxShape == 3
\* an NDVI series given to encode holds 0 .. MaxSeries readings, each one of
\* 0, 0.1, .. SeriesTop/10
MaxSeries == 4
SeriesTop == 6

-----------------------------------------------------------------------------
(* Scales *)

Unit == 4 * 5                       \* index values: twentieths
YieldUnit == 4 * 1000               \* a point estimate, per tenth of a ton
FineUnit == 500 * YieldUnit         \* interval bounds, per tenth of a ton
CentYield == YieldUnit \div 10      \* YieldUnit per hundredth of a ton
CentFine == FineUnit \div 10        \* FineUnit per hundredth of a ton

-----------------------------------------------------------------------------
(* numpy / builtins *)

\* np.clip(x, lo, hi)
Clip(x, lo, hi) == IF x < lo THEN lo ELSE IF x > hi THEN hi ELSE x

\* round(n / d) to the nearest integer, ties to the even one (d > 0)
RoundHalfEven(n, d) ==
    LET q == n \div d
        r == n % d
    IN  IF 2 * r < d THEN q
        ELSE IF 2 * r > d THEN q + 1
        ELSE IF q % 2 = 0 THEN q ELSE q + 1

\* round(a * b / c), computed without forming a * b  (a, b >= 0, c > 0)
MulDivRound(a, b, c) ==
    (a \div c) * b + RoundHalfEven((a % c) * b, c)

\* int(x) of x = n / d >= 0: truncation
Trunc(n, d) == n \div d

-----------------------------------------------------------------------------
(* Reference data *)

CropType == {"wheat", "rice", "cotton", "sugarcane", "maize"}

\* PAKISTAN_YIELDS, tons/hectare in tenths (the provincial averages are not
\* used by any operation modelled here)
PAKISTAN_YIELDS ==
    [c \in CropType |->
        CASE c = "wheat"     -> [national_avg |-> 31,  optimal |-> 50,  min |-> 15]
          [] c = "rice"      -> [national_avg |-> 28,  optimal |-> 45,  min |-> 12]
          [] c = "cotton"    -> [national_avg |-> 8,   optimal |-> 15,  min |-> 3]
          [] c = "sugarcane" -> [national_avg |-> 550, optimal |-> 800, min |-> 300]
          [] c = "maize"     -> [national_avg |-> 55,  optimal |-> 80,  min |-> 25]]

IrrigationType == {"canal", "tubewell", "rainfed", "drip"}

FarmFeatures ==
    [crop_type : CropType,
     current_ndvi : {2 * j : j \in NdviLo..NdviHi},
     current_ndwi : {2 * j : j \in (-NdwiBelow)..NdwiAbove},
     irrigation_type : IrrigationType]

\* FarmFeatures as a caller can construct them: the dataclass checks neither
\* the type of crop_type (so it may be a value that is no key of
\* PAKISTAN_YIELDS, here "barley") nor the sign of area_hectares
FarmRequests ==
    [crop_type : CropType \cup {"barley"},
     area_hectares : (-AreaMax)..AreaMax,
     current_ndvi : {2 * NdviLo, 2 * NdviHi},
     current_ndwi : {-2 * NdwiBelow, 2 * NdwiAbove},
     irrigation_type : IrrigationType]

-----------------------------------------------------------------------------
(* np.random: the process-global generator.  The source never seeds it, so  *)
(* it starts in any state; a draw returns a deviate that is a function of   *)
(* the state and moves the generator to its next state.                     *)

RngStates == 0..(RngPeriod - 1)

\* the deviate of np.random.normal in state s, as d (standard deviate 2*d)
Deviate(s) == (s % (2 * DrawMax + 1)) - DrawMax

\* the generator's state after one draw
NextRng(s) == (s + 1) % RngPeriod

\* the generator's state after n draws
RECURSIVE AfterDraws(_, _)
AfterDraws(s, n) == IF n = 0 THEN s ELSE AfterDraws(NextRng(s), n - 1)


-----------------------------------------------------------------------------
(* XGBoostYieldModel.predict *)

\* ndvi_factor = np.clip((current_ndvi - 0.3) / 0.4, 0, 1), in eighths
NdviFactor(f) == Clip(f.current_ndvi - 6, 0, 8)

\* water_factor = np.clip((current_ndwi + 0.2) / 0.5, 0, 1), in tenths
WaterFactor(f) == Clip(f.current_ndwi + 4, 0, 10)

\* irrigation_factors.get(irrigation_type, 0.8), in twentieths
IrrigationFactor(f) ==
    CASE f.irrigation_type = "canal"    -> 20
      [] f.irrigation_type = "tubewell" -> 19
      [] f.irrigation_type = "rainfed"  -> 14
      [] OTHER                          -> 16

\* combined_factor = 0.5*ndvi_factor + 0.3*water_factor + 0.2*irrigation_factor,
\* in 1/400
CombinedFactor(f) ==
    25 * NdviFactor(f) + 12 * WaterFactor(f) + 4 * IrrigationFactor(f)

\* predicted = min_yield + combined_factor * yield_range, in YieldUnit / 10
HeuristicYield(f) ==
    LET optimal_yield == PAKISTAN_YIELDS[f.crop_type].optimal
        min_yield == PAKISTAN_YIELDS[f.crop_type].min
        yield_range == optimal_yield - min_yield
    IN  min_yield * 400 + CombinedFactor(f) * yield_range

\* noise = np.random.normal(0, 0.05); predicted = predicted * (1 + noise),
\* in YieldUnit: the deviate d gives noise = 0.05 * 2d = d / 10
NoisyYield(f, d) == HeuristicYield(f) * (10 + d)

\* mutant: the final np.clip is missing
XGBoostPredictUnclipped(f, d) == NoisyYield(f, d)

\* return np.clip(predicted, min_yield, optimal_yield), in YieldUnit
XGBoostPredict(f, d) ==
    Clip(NoisyYield(f, d),
         PAKISTAN_YIELDS[f.crop_type].min * YieldUnit,
         PAKISTAN_YIELDS[f.crop_type].optimal * YieldUnit)

-----------------------------------------------------------------------------
(* YieldPredictor.predict *)

\* std_error = 0.15 * predicted_yield, in FineUnit
StdError(predicted_yield) == 75 * predicted_yield

\* mutant: the sign of the lower bound's margin is flipped
CiLowPlus(predicted_yield) ==
    500 * predicted_yield + 49 * (StdError(predicted_yield) \div 25)

\* ci_low = predicted_yield - 1.96 * std_error, in FineUnit (1.96 = 49/25)
CiLow(predicted_yield) ==
    500 * predicted_yield - 49 * (StdError(predicted_yield) \div 25)

\* mutant: the upper bound uses the 90% quantile 1.645 = 329/200
CiHigh90(predicted_yield) ==
    500 * predicted_yield + 329 * (StdError(predicted_yield) \div 200)

\* ci_high = predicted_yield + 1.96 * std_error, in FineUnit
CiHigh(predicted_yield) ==
    500 * predicted_yield + 49 * (StdError(predicted_yield) \div 25)

\* percentile = int(np.clip((predicted - min) / (optimal - min) * 100, 0, 100))
Percentile(f, predicted_yield) ==
    LET crop_stats == PAKISTAN_YIELDS[f.crop_type]
        num == (predicted_yield - crop_stats.min * YieldUnit) * 100
        den == (crop_stats.optimal - crop_stats.min) * YieldUnit
    IN  IF num < 0 THEN 0
        ELSE IF num > 100 * den THEN 100
        ELSE Trunc(num, den)

\* mutant: the positive NDVI entry needs current_ndvi > 0.6
KeyFactorsStrict(f) ==
    (IF f.current_ndvi > 12 THEN << <<"NDVI Index", "positive">> >>
     ELSE IF f.current_ndvi < 8 THEN << <<"NDVI Index", "negative">> >>
     ELSE << >>)
    \o
    (IF f.current_ndwi < 2 THEN << <<"Water Stress", "negative">> >> ELSE << >>)

\* key_factors: the entries appended, in order, as <<factor, impact>>
KeyFactors(f) ==
    (IF f.current_ndvi >= 12 THEN << <<"NDVI Index", "positive">> >>
     ELSE IF f.current_ndvi < 8 THEN << <<"NDVI Index", "negative">> >>
     ELSE << >>)
    \o
    (IF f.current_ndwi < 2 THEN << <<"Water Stress", "negative">> >> ELSE << >>)

\* the locals of YieldPredictor.predict when it returns, with the noise drawn
\* inside xgb_model.predict (in tenths)
PredictLocals(f, d) ==
    LET predicted_yield == XGBoostPredict(f, d)
    IN  [noise           |-> d,
         predicted_yield |-> predicted_yield,
         std_error       |-> StdError(predicted_yield),
         ci_low          |-> CiLow(predicted_yield),
         ci_high         |-> CiHigh(predicted_yield)]

\* the YieldPrediction returned; yields in hundredths of a ton
YieldPrediction(f, l) ==
    [crop_type |-> f.crop_type,
     predicted_yield_tons_per_hectare |-> RoundHalfEven(l.predicted_yield, CentYield),
     confidence_interval |-> <<RoundHalfEven(l.ci_low, CentFine),
                               RoundHalfEven(l.ci_high, CentFine)>>,
     confidence_percent |-> 85,
     key_factors |-> KeyFactors(f),
     national_average |-> PAKISTAN_YIELDS[f.crop_type].national_avg,
     percentile |-> Percentile(f, l.predicted_yield)]

-----------------------------------------------------------------------------
(* YieldPredictor.predict_timeseries *)

\* len(range(0, days_ahead, 7))
Steps(days_ahead) == (days_ahead + 6) \div 7

\* one entry of predictions, for day = 7 * i, drawn in generator state s:
\* growth_factor = 1 + 0.01 * (day / 7), noise = np.random.normal(0, 0.02)
\* = 0.02 * 2d = d / 25, predicted_yield rounded to hundredths of a ton,
\* confidence in tenths
TimeseriesEntry(current_yield, i, s) ==
    [days_from_now |-> 7 * i,
     predicted_yield |->
        MulDivRound(current_yield * (100 + i), 25 + Deviate(s), 2500 * CentYield),
     confidence |-> 850 - 35 * i]

\* predictions: current_yield is drawn first, then one draw per entry
PredictTimeseries(f, s, days_ahead) ==
    LET current_yield == XGBoostPredict(f, Deviate(s))
    IN  [i \in 1..Steps(days_ahead) |->
            TimeseriesEntry(current_yield, i - 1, AfterDraws(s, i))]

-----------------------------------------------------------------------------
(* The forecast service: one farm, forecast requests in any order *)

Init ==
    /\ rng \in RngStates
    /\ farm \in FarmFeatures
    /\ locals = None
    /\ forecast = None
    /\ first = None
    /\ series = None
    /\ image = None
    /\ indices = None
    /\ classified = None
    /\ score = None
    /\ features = None
    /\ raised = None
    /\ segmented = None
    /\ db = None
    /\ response = None

\* YieldPredictor.predict(farm).  PAKISTAN_YIELDS[farm.crop_type], the first
\* statement of xgb_model.predict, raises KeyError for a crop_type that is no
\* key of the table, before the generator is used; nothing else is checked.
Predict ==
    /\ IF farm.crop_type \in DOMAIN PAKISTAN_YIELDS
       THEN /\ locals' = Some(PredictLocals(farm, Deviate(rng)))
            /\ forecast' = Some(YieldPrediction(farm, Val(locals')))
            /\ first' = IF first = None THEN forecast' ELSE first
            /\ rng' = NextRng(rng)
            /\ raised' = None
       ELSE /\ locals' = None
            /\ forecast' = None
            /\ raised' = Some("KeyError")
            /\ UNCHANGED <<first, rng>>
    /\ series' = None
    /\ UNCHANGED <<farm, image, indices, classified, score, features>>
    /\ UNCHANGED <<segmented, db, response>>

\* YieldPredictor.predict_timeseries(farm, days_ahead)
Timeseries(days_ahead) ==
    /\ IF farm.crop_type \in DOMAIN PAKISTAN_YIELDS
       THEN /\ series' = Some(PredictTimeseries(farm, rng, days_ahead))
            /\ rng' = AfterDraws(rng, 1 + Steps(days_ahead))
            /\ raised' = None
       ELSE /\ series' = None
            /\ raised' = Some("KeyError")
            /\ UNCHANGED rng
    /\ locals' = None
    /\ forecast' = None
    /\ UNCHANGED <<farm, first, image, indices, classified, score, features>>
    /\ UNCHANGED <<segmented, db, response>>

Next ==
    \/ Predict
    \/ \E days_ahead \in 0..MaxDaysAhead : Timeseries(days_ahead)

Spec == Init /\ [][Next]_vars

\* forecast requests for any FarmFeatures a caller can construct
InitRequests ==
    /\ rng \in RngStates
    /\ farm \in FarmRequests
    /\ locals = None
    /\ forecast = None
    /\ first = None
    /\ series = None
    /\ image = None
    /\ indices = None
    /\ classified = None
    /\ score = None
    /\ features = None
    /\ raised = None
    /\ segmented = None
    /\ db = None
    /\ response = None

SpecRequests == InitRequests /\ [][Predict]_vars

\* the wheat farm of the end-to-end scenario: current_ndvi = 0.65,
\* current_ndwi = 0.35, canal irrigation
WheatScenario ==
    [crop_type |-> "wheat", current_ndvi |-> 13, current_ndwi |-> 7,
     irrigation_type |-> "canal"]

\* forecast requests for the scenario's farm, the generator in any state
InitScenario ==
    /\ rng \in RngStates
    /\ farm = WheatScenario
    /\ locals = None
    /\ forecast = None
    /\ first = None
    /\ series = None
    /\ image = None
    /\ indices = None
    /\ classified = None
    /\ score = None
    /\ features = None
    /\ raised = None
    /\ segmented = None
    /\ db = None
    /\ response = None

SpecScenario == InitScenario /\ [][Next]_vars

-----------------------------------------------------------------------------
(* Floating values of the index pipeline, held exactly.                     *)
(* A value is <<n, d>>: the rational n / d in lowest terms with d > 0, or   *)
(* d = 0 for what a division by zero gives: <<0, 0>> is nan, <<1, 0>> is    *)
(* inf and <<-1, 0>> is -inf.                                               *)

Abs(x) == IF x < 0 THEN -x ELSE x
Sgn(x) == IF x < 0 THEN -1 ELSE IF x > 0 THEN 1 ELSE 0

RECURSIVE GCD(_, _)
GCD(a, b) == IF b = 0 THEN a ELSE GCD(b, a % b)

\* the value n / d in lowest terms; a zero d gives nan (0/0) or an infinity,
\* as float division and arithmetic on nan and the infinities do
Rat(n, d) ==
    IF d = 0 THEN <<Sgn(n), 0>>
    ELSE LET g == GCD(Abs(n), Abs(d))
         IN  <<Sgn(d) * (n \div g), Abs(d) \div g>>

NaN == <<0, 0>>
IsNaN(x) == x = NaN
IsFinite(x) == x[2] > 0

\* x < y, x <= y; False when either is nan, as every comparison with nan is
Less(x, y) == IsFinite(x) /\ IsFinite(y) /\ x[1] * y[2] < y[1] * x[2]
LessEq(x, y) == IsFinite(x) /\ IsFinite(y) /\ x[1] * y[2] <= y[1] * x[2]

\* x + y, over the least common denominator when both are finite
Add(x, y) ==
    IF x[2] = 0 \/ y[2] = 0
    THEN Rat(x[1] * y[2] + y[1] * x[2], x[2] * y[2])
    ELSE LET g == GCD(x[2], y[2])
         IN  Rat(x[1] * (y[2] \div g) + y[1] * (x[2] \div g),
                 (x[2] \div g) * y[2])
Sub(x, y) == Add(x, <<-y[1], y[2]>>)
Mul(x, y) == Rat(x[1] * y[1], x[2] * y[2])

\* np.clip(x, lo, hi) of a finite or infinite x; nan stays nan
ClipValue(x, lo, hi) ==
    IF IsNaN(x) THEN NaN
    ELSE IF x[2] = 0 THEN (IF x[1] > 0 THEN hi ELSE lo)
    ELSE IF Less(x, lo) THEN lo
    ELSE IF Less(hi, x) THEN hi
    ELSE x

\* a band value or an index value v / 20
Idx(v) == Rat(v, Unit)

-----------------------------------------------------------------------------
(* SatelliteProcessor: the index formulas, per pixel.  Band values are in   *)
(* twentieths.  A denominator is <<u, e>>: u units plus e times 1e-10.      *)

\* SAVI_L = 0.5 and the EVI coefficients G = 2.5, C1 = 6.0, C2 = 7.5, L = 1.0,
\* in twentieths
SAVI_L == 10
EVI_G == 50
EVI_C1 == 120
EVI_C2 == 150
EVI_L == 20

\* mutant: the zero denominator is left as it is
WhereZeroKept(u) == <<u, 0>>

\* np.where(denominator == 0, 1e-10, denominator)
WhereZero(u) == IF u = 0 THEN <<0, 1>> ELSE <<u, 0>>

\* np.clip(num / denominator, -1.0, 1.0), num and the denominator's units
\* being 1/g.  Over 1e-10 a non-zero num gives a quotient of magnitude at
\* least 1e10 / g > 1, which the clip takes to -1 or 1; a float division by
\* zero gives nan (0/0) or an infinity.
ClippedQuotient(num, den, g) ==
    IF den[2] = 1 THEN Rat(Sgn(num), 1)
    ELSE IF den[1] = 0 THEN ClipValue(<<Sgn(num), 0>>, Rat(-1, 1), Rat(1, 1))
    ELSE ClipValue(Rat(num, den[1]), Rat(-1, 1), Rat(1, 1))

\* compute_ndvi: (NIR - Red) / (NIR + Red)
NdviPixel(nir, red) ==
    ClippedQuotient(nir - red, WhereZero(nir + red), Unit)

\* mutant: the water index of the other convention, (NIR - Green) / (NIR + Green)
NdwiPixelSwapped(nir, green) ==
    ClippedQuotient(nir - green, WhereZero(green + nir), Unit)

\* compute_ndwi: (Green - NIR) / (Green + NIR)
NdwiPixel(nir, green) ==
    ClippedQuotient(green - nir, WhereZero(green + nir), Unit)

\* compute_savi: ((NIR - Red) / (NIR + Red + L)) * (1 + L); num and the
\* denominator in 1/400
SaviPixel(nir, red) ==
    ClippedQuotient((nir - red) * (Unit + SAVI_L),
                    LET den == WhereZero(nir + red + SAVI_L)
                    IN  <<den[1] * Unit, den[2]>>,
                    Unit * Unit)

\* mutant: the EVI is returned without np.clip
EviPixelUnclipped(nir, red, blue) ==
    LET u == Unit * nir + EVI_C1 * red - EVI_C2 * blue + Unit * EVI_L
    IN  IF u = 0 THEN <<Sgn(nir - red), 0>> ELSE Rat(EVI_G * (nir - red), u)

\* compute_evi: G * (NIR - Red) / (NIR + C1 * Red - C2 * Blue + L); num and
\* the denominator in 1/400
EviPixel(nir, red, blue) ==
    ClippedQuotient(EVI_G * (nir - red),
                    WhereZero(Unit * nir + EVI_C1 * red - EVI_C2 * blue
                              + Unit * EVI_L),
                    Unit * Unit)

\* numpy's broadcasting of two arrays of m and n elements: they combine when
\* the sizes are equal or one of them is 1, which is then repeated; otherwise
\* the operation raises ValueError
Compatible(m, n) == m = n \/ m = 1 \/ n = 1
Broadcast(m, n) == IF m = 1 THEN n ELSE m
At(x, i) == IF Len(x) = 1 THEN x[1] ELSE x[i]

\* the four functions on rasters: numpy computes them elementwise, on the
\* broadcast operands
compute_ndvi(nir, red) ==
    [i \in 1..Broadcast(Len(nir), Len(red)) |-> NdviPixel(At(nir, i), At(red, i))]
compute_ndwi(nir, green) ==
    [i \in 1..Broadcast(Len(nir), Len(green)) |->
        NdwiPixel(At(nir, i), At(green, i))]
compute_savi(nir, red) ==
    [i \in 1..Broadcast(Len(nir), Len(red)) |-> SaviPixel(At(nir, i), At(red, i))]
compute_evi(nir, red, blue) ==
    [i \in 1..Broadcast(Broadcast(Len(nir), Len(red)), Len(blue)) |->
        EviPixel(At(nir, i), At(red, i), At(blue, i))]

-----------------------------------------------------------------------------
(* SatelliteProcessor.process_image *)

\* the values of raster x at the pixels of valid_mask, in raster order
RECURSIVE Selected(_, _)
Selected(x, valid_mask) ==
    IF x = << >> THEN << >>
    ELSE (IF Head(valid_mask) THEN <<Head(x)>> ELSE << >>)
         \o Selected(Tail(x), Tail(valid_mask))

RECURSIVE Sum(_)
Sum(x) == IF x = << >> THEN Rat(0, 1) ELSE Add(Head(x), Sum(Tail(x)))

\* np.nanmean(x) of a non-empty x holding no nan
Mean(x) == Mul(Sum(x), Rat(1, Len(x)))

\* np.nanstd(x) ** 2: the mean squared deviation, whose root nanstd returns
StdSquared(x) ==
    Mean([i \in DOMAIN x |-> Mul(Sub(x[i], Mean(x)), Sub(x[i], Mean(x)))])

\* mask: the cloud mask if there is one, else np.ones_like(image.red)
Mask(img) ==
    IF img.cloud_mask # None THEN Val(img.cloud_mask)
    ELSE [i \in DOMAIN img.red |-> TRUE]

\* mutant: the bounds -1 and 1 taken as valid
ValidMaskClosed(mask, ndvi) ==
    [i \in 1..Broadcast(Len(mask), Len(ndvi)) |->
        /\ At(mask, i)
        /\ LessEq(Rat(-1, 1), At(ndvi, i))
        /\ LessEq(At(ndvi, i), Rat(1, 1))]

\* valid_mask = mask & (ndvi > -1) & (ndvi < 1)
ValidMask(mask, ndvi) ==
    [i \in 1..Broadcast(Len(mask), Len(ndvi)) |->
        /\ At(mask, i)
        /\ Less(Rat(-1, 1), At(ndvi, i))
        /\ Less(At(ndvi, i), Rat(1, 1))]

\* the exception process_image raises, None when it returns.  No statement
\* compares the shapes: the operands of an arithmetic or logical operation
\* are broadcast, which raises ValueError when they do not combine, and
\* x[valid_mask], evaluated only if valid_mask.any(), raises IndexError when
\* valid_mask has not the shape of x.
process_image_raises(img) ==
    LET nr == Broadcast(Len(img.nir), Len(img.red))
        ng == Broadcast(Len(img.nir), Len(img.green))
    IN  IF \/ ~Compatible(Len(img.nir), Len(img.red))
           \/ ~Compatible(Len(img.green), Len(img.nir))
           \/ ~Compatible(nr, Len(img.blue))
           \/ ~Compatible(Len(Mask(img)), nr)
        THEN Some("ValueError")
        ELSE LET valid_mask == ValidMask(Mask(img),
                                         compute_ndvi(img.nir, img.red))
             IN  IF /\ \E i \in DOMAIN valid_mask : valid_mask[i]
                    /\ (Len(valid_mask) # nr \/ Len(valid_mask) # ng)
                 THEN Some("IndexError")
                 ELSE None

\* the VegetationIndices process_image returns, when it raises nothing
process_image(img) ==
    LET mask == Mask(img)
        ndvi == compute_ndvi(img.nir, img.red)
        ndwi == compute_ndwi(img.nir, img.green)
        savi == compute_savi(img.nir, img.red)
        evi == compute_evi(img.nir, img.red, img.blue)
        valid_mask == ValidMask(mask, ndvi)
        any == \E i \in DOMAIN valid_mask : valid_mask[i]
    IN  [ndvi |-> ndvi, ndwi |-> ndwi, savi |-> savi, evi |-> evi,
         ndvi_mean |-> IF any THEN Mean(Selected(ndvi, valid_mask)) ELSE Rat(0, 1),
         ndvi_std  |-> IF any THEN StdSquared(Selected(ndvi, valid_mask)) ELSE Rat(0, 1),
         ndwi_mean |-> IF any THEN Mean(Selected(ndwi, valid_mask)) ELSE Rat(0, 1),
         ndwi_std  |-> IF any THEN StdSquared(Selected(ndwi, valid_mask)) ELSE Rat(0, 1),
         savi_mean |-> IF any THEN Mean(Selected(savi, valid_mask)) ELSE Rat(0, 1)]

-----------------------------------------------------------------------------
(* SatelliteProcessor.classify_health_zones *)

\* zones[mask] = code
Assign(zones, mask, code) ==
    [i \in DOMAIN zones |-> IF mask[i] THEN code ELSE zones[i]]

\* mutant: the stressed rule does not exclude the critical pixels
StressedMaskLoose(ndvi, ndwi, critical_mask) ==
    [i \in DOMAIN ndvi |-> Less(ndvi[i], Idx(8)) \/ Less(ndwi[i], Idx(0))]

\* stressed_mask = ~critical_mask & ((ndvi < 0.4) | (ndwi < 0))
StressedMask(ndvi, ndwi, critical_mask) ==
    [i \in DOMAIN ndvi |->
        ~critical_mask[i] /\ (Less(ndvi[i], Idx(8)) \/ Less(ndwi[i], Idx(0)))]

\* mutant: the healthy rule does not exclude the moderate pixels
HealthyMaskLoose(critical_mask, stressed_mask, moderate_mask) ==
    [i \in DOMAIN critical_mask |-> ~critical_mask[i] /\ ~stressed_mask[i]]

\* healthy_mask = ~critical_mask & ~stressed_mask & ~moderate_mask
HealthyMask(critical_mask, stressed_mask, moderate_mask) ==
    [i \in DOMAIN critical_mask |->
        ~critical_mask[i] /\ ~stressed_mask[i] /\ ~moderate_mask[i]]

\* float(np.sum(zones == code) / total_pixels * 100)
Percent(zones, code) ==
    Rat(Cardinality({i \in DOMAIN zones : zones[i] = code}) * 100, Len(zones))

classify_health_zones(ndvi, ndwi) ==
    LET zones0 == [i \in DOMAIN ndvi |-> 0]
        critical_mask == [i \in DOMAIN ndvi |->
                             Less(ndvi[i], Idx(4)) \/ Less(ndwi[i], Idx(-4))]
        zones1 == Assign(zones0, critical_mask, 0)
        stressed_mask == StressedMask(ndvi, ndwi, critical_mask)
        zones2 == Assign(zones1, stressed_mask, 1)
        moderate_mask == [i \in DOMAIN ndvi |->
                             /\ ~critical_mask[i] /\ ~stressed_mask[i]
                             /\ Less(ndvi[i], Idx(12))]
        zones3 == Assign(zones2, moderate_mask, 2)
        healthy_mask == HealthyMask(critical_mask, stressed_mask, moderate_mask)
        zones == Assign(zones3, healthy_mask, 3)
    IN  [zones |-> zones,
         stats |-> [critical_percent |-> Percent(zones, 0),
                    stressed_percent |-> Percent(zones, 1),
                    moderate_percent |-> Percent(zones, 2),
                    healthy_percent  |-> Percent(zones, 3)],
         critical_mask |-> critical_mask,
         stressed_mask |-> stressed_mask,
         moderate_mask |-> moderate_mask,
         healthy_mask  |-> healthy_mask]

-----------------------------------------------------------------------------
(* SatelliteProcessor.compute_health_score *)

\* ndvi_score = np.clip((ndvi_mean - 0.2) / 0.6 * 100, 0, 100)
NdviScore(ndvi_mean) ==
    ClipValue(Mul(Mul(Sub(ndvi_mean, Idx(4)), Rat(Unit, 12)), Rat(100, 1)),
              Rat(0, 1), Rat(100, 1))

\* ndwi_score = np.clip((ndwi_mean + 0.2) / 0.6 * 100, 0, 100)
NdwiScore(ndwi_mean) ==
    ClipValue(Mul(Mul(Add(ndwi_mean, Idx(4)), Rat(Unit, 12)), Rat(100, 1)),
              Rat(0, 1), Rat(100, 1))

\* mutant: the two weights are exchanged
WeightedScoreSwapped(ndvi_score, ndwi_score) ==
    Add(Mul(Rat(3, 10), ndvi_score), Mul(Rat(7, 10), ndwi_score))

\* mutant: the NDWI score is subtracted
WeightedScoreDifference(ndvi_score, ndwi_score) ==
    Sub(Mul(Rat(7, 10), ndvi_score), Mul(Rat(3, 10), ndwi_score))

\* health_score = 0.7 * ndvi_score + 0.3 * ndwi_score
WeightedScore(ndvi_score, ndwi_score) ==
    Add(Mul(Rat(7, 10), ndvi_score), Mul(Rat(3, 10), ndwi_score))

\* return round(float(health_score), 1), in tenths
compute_health_score(ind) ==
    LET health_score == WeightedScore(NdviScore(ind.ndvi_mean),
                                      NdwiScore(ind.ndwi_mean))
    IN  RoundHalfEven(health_score[1] * 10, health_score[2])

-----------------------------------------------------------------------------
(* LSTMTimeSeriesEncoder.encode *)

\* np.max(x), np.min(x) of a non-empty x
MaxOf(x) == CHOOSE v \in {x[i] : i \in DOMAIN x} :
                \A i \in DOMAIN x : LessEq(x[i], v)
MinOf(x) == CHOOSE v \in {x[i] : i \in DOMAIN x} :
                \A i \in DOMAIN x : LessEq(v, x[i])

\* mutant: the sizes of the consecutive changes, whatever their direction
DiffAbsolute(x) ==
    [i \in 1..(Len(x) - 1) |-> LET c == Sub(x[i + 1], x[i]) IN <<Abs(c[1]), c[2]>>]

\* mutant: the differences are taken backwards
DiffReversed(x) == [i \in 1..(Len(x) - 1) |-> Sub(x[i], x[i + 1])]

\* np.diff(x)
Diff(x) == [i \in 1..(Len(x) - 1) |-> Sub(x[i + 1], x[i])]

\* np.zeros(8)
Zeros8 == [i \in 1..8 |-> Rat(0, 1)]

\* the features list of encode, of the array x of the series; np.std(x) is
\* held as its square
EncodeFeatures(x) ==
    <<Mean(x),
      StdSquared(x),
      MaxOf(x),
      MinOf(x),
      Sub(x[Len(x)], x[1]),
      x[Len(x)],
      Mean(Diff(x)),
      MaxOf(Diff(x))>>

\* mutant: the fallback covers the series shorter than 2 only
encode_from_two(ndvi_series) ==
    IF Len(ndvi_series) < 2 THEN Zeros8 ELSE EncodeFeatures(ndvi_series)

encode(ndvi_series) ==
    IF Len(ndvi_series) < 3 THEN Zeros8 ELSE EncodeFeatures(ndvi_series)

\* lstm_encoder.encode(farm.ndvi_series)
Encode ==
    /\ features' = Some(encode(farm.ndvi_series))
    /\ raised' = None
    /\ UNCHANGED <<rng, farm, locals, forecast, first, series,
                   image, indices, classified, score>>
    /\ UNCHANGED <<segmented, db, response>>

\* the series of n readings over the values of S
SeriesOf(S, n) == [1..n -> S]

\* a farm's NDVI series of any length 0 .. MaxSeries
InitEncode ==
    /\ rng = 0
    /\ \E n \in 0..MaxSeries :
          \E ndvi_series \in SeriesOf({Idx(2 * j) : j \in 0..SeriesTop}, n) :
              farm = [ndvi_series |-> ndvi_series]
    /\ locals = None
    /\ forecast = None
    /\ first = None
    /\ series = None
    /\ image = None
    /\ indices = None
    /\ classified = None
    /\ score = None
    /\ features = None
    /\ raised = None
    /\ segmented = None
    /\ db = None
    /\ response = None

SpecEncode == InitEncode /\ [][Encode]_vars

-----------------------------------------------------------------------------
(* The index pipeline as operations on the processor's inputs and results *)

\* processor.process_image(image)
ProcessImage ==
    /\ image # None
    /\ raised' = process_image_raises(Val(image))
    /\ indices' = IF raised' = None THEN Some(process_image(Val(image)))
                  ELSE None
    /\ UNCHANGED <<rng, farm, locals, forecast, first, series,
                   image, classified, score, features>>
    /\ UNCHANGED <<segmented, db, response>>

\* processor.classify_health_zones(indices.ndvi, indices.ndwi)
ClassifyHealthZones ==
    /\ indices # None
    /\ Val(indices).ndvi # << >>
    /\ classified' = Some(classify_health_zones(Val(indices).ndvi, Val(indices).ndwi))
    /\ raised' = None
    /\ UNCHANGED <<rng, farm, locals, forecast, first, series,
                   image, indices, score, features>>
    /\ UNCHANGED <<segmented, db, response>>

\* processor.compute_health_score(indices)
ComputeHealthScore ==
    /\ indices # None
    /\ score' = Some(compute_health_score(Val(indices)))
    /\ raised' = None
    /\ UNCHANGED <<rng, farm, locals, forecast, first, series,
                   image, indices, classified, features>>
    /\ UNCHANGED <<segmented, db, response>>

NoForecast ==
    /\ rng = 0
    /\ farm = None
    /\ locals = None
    /\ forecast = None
    /\ first = None
    /\ series = None
    /\ features = None
    /\ raised = None
    /\ segmented = None
    /\ db = None
    /\ response = None

\* the band values of the scenes processed
BandValues == {BandStep * j : j \in (-BandBelow)..BandAbove}

\* a scene of one pixel, with no cloud mask or with one
InitScene ==
    /\ NoForecast
    /\ \E blue \in BandValues, green \in BandValues,
          red \in BandValues, nir \in BandValues,
          cloud_mask \in {None, Some(<<TRUE>>), Some(<<FALSE>>)} :
            image = Some([blue |-> <<blue>>, green |-> <<green>>,
                          red |-> <<red>>, nir |-> <<nir>>,
                          cloud_mask |-> cloud_mask])
    /\ indices = None
    /\ classified = None
    /\ score = None

NextScene == ProcessImage \/ ClassifyHealthZones \/ ComputeHealthScore

SpecScene == InitScene /\ [][NextScene]_vars

\* the scenes of the end-to-end scenario: NIR = 0.5 and Red = 0.15 at every
\* pixel, no cloud mask; the green band, which the scenario leaves open, is
\* any reflectance in [0, 1] at each pixel (blue, used by the EVI only, is 0.1)
InitScenarioScene ==
    /\ NoForecast
    /\ \E n \in 1..MaxPixels :
          \E green \in [1..n -> 0..Unit] :
            image = Some([blue |-> [i \in 1..n |-> 2], green |-> green,
                          red |-> [i \in 1..n |-> 3],
                          nir |-> [i \in 1..n |-> 10],
                          cloud_mask |-> None])
    /\ indices = None
    /\ classified = None
    /\ score = None

SpecScenarioScene == InitScenarioScene /\ [][NextScene]_vars

\* scenes of 1 .. MaxPixels pixels, each pixel with Red = 0 or not, NIR = 0
\* or not, a dark or a bright green band, and a cloud mask of any entries
InitPixels ==
    /\ NoForecast
    /\ \E n \in 1..MaxPixels :
          \E red \in [1..n -> {0, BandStep}],
             nir \in [1..n -> {0, 2 * BandStep}],
             green \in [1..n -> {0, 2 * BandStep}],
             cloud_mask \in {None} \cup {Some(m) : m \in [1..n -> BOOLEAN]} :
                image = Some([blue |-> [i \in 1..n |-> BandStep],
                              green |-> green, red |-> red, nir |-> nir,
                              cloud_mask |-> cloud_mask])
    /\ indices = None
    /\ classified = None
    /\ score = None

NextPixels == ProcessImage \/ ComputeHealthScore

SpecPixels == InitPixels /\ [][NextPixels]_vars

\* the raster of n pixels v + 1, v + 2, ..
Ramp(n, v) == [i \in 1..n |-> v + i]

\* scenes whose four bands and cloud mask are each of any size 1 .. MaxShape
InitShapes ==
    /\ NoForecast
    /\ \E b \in 1..MaxShape, g \in 1..MaxShape, r \in 1..MaxShape,
          n \in 1..MaxShape :
          \E cloud_mask \in {None} \cup
                  {Some([i \in 1..m |-> v]) : m \in 1..MaxShape, v \in BOOLEAN} :
            image = Some([blue |-> Ramp(b, 1), green |-> Ramp(g, 2),
                          red |-> Ramp(r, 3), nir |-> Ramp(n, 9),
                          cloud_mask |-> cloud_mask])
    /\ indices = None
    /\ classified = None
    /\ score = None

SpecShapes == InitShapes /\ [][ProcessImage]_vars

\* the rasters of n pixels over the values of S
Rasters(S, n) == [1..n -> S]

\* a caller's NDVI and NDWI rasters, given to classify_health_zones
InitZones ==
    /\ NoForecast
    /\ image = None
    /\ \E n \in 1..MaxPixels :
          \E ndvi \in Rasters({Idx(2 * j) : j \in 0..NdviTop}, n),
             ndwi \in Rasters({Idx(2 * j) : j \in (-NdwiDown)..NdwiUp}, n) :
                indices = Some([ndvi |-> ndvi, ndwi |-> ndwi])
    /\ classified = None
    /\ score = None

SpecZones == InitZones /\ [][ClassifyHealthZones]_vars

\* a caller's index statistics, given to compute_health_score
InitScore ==
    /\ NoForecast
    /\ image = None
    /\ \E a \in (-MeanMax)..MeanMax, b \in (-MeanMax)..MeanMax :
          indices = Some([ndvi_mean |-> Idx(a), ndwi_mean |-> Idx(b)])
    /\ classified = None
    /\ score = None

SpecScore == InitScore /\ [][ComputeHealthScore]_vars

-----------------------------------------------------------------------------
(* Claims about the forecast *)

MinYield == PAKISTAN_YIELDS[farm.crop_type].min
OptimalYield == PAKISTAN_YIELDS[farm.crop_type].optimal

\* C1: the point estimate returned by XGBoostYieldModel.predict, and the
\* predicted_yield_tons_per_hectare that YieldPredictor.predict reports, lie in
\* [min_yield, optimal_yield] of the farm's crop, for every feature vector and
\* every noise drawn.
C1_YieldInRange ==
    forecast # None =>
        /\ MinYield * YieldUnit <= Val(locals).predicted_yield
        /\ Val(locals).predicted_yield <= OptimalYield * YieldUnit
        /\ MinYield * 10 <= Val(forecast).predicted_yield_tons_per_hectare
        /\ Val(forecast).predicted_yield_tons_per_hectare <= OptimalYield * 10

\* a forecast whose noisy estimate exceeded optimal_yield and was clipped to it
C1_Witness ==
    /\ forecast # None
    /\ NoisyYield(farm, Val(locals).noise) > OptimalYield * YieldUnit
    /\ Val(forecast).predicted_yield_tons_per_hectare = OptimalYield * 10

\* C2: the point estimate XGBoostYieldModel.predict returns is exactly
\* clamp(min_yield + (0.5 ndvi_factor + 0.3 water_factor + 0.2 irrigation_factor)
\* * (optimal_yield - min_yield), min_yield, optimal_yield), no other term
\* entering.  (Stated in YieldUnit: the formula's value is in YieldUnit / 10.)
C2_PointIsFormula ==
    forecast # None =>
        LET ndvi_factor == Clip(farm.current_ndvi - 6, 0, 8)
            water_factor == Clip(farm.current_ndwi + 4, 0, 10)
            irrigation_factor ==
                CASE farm.irrigation_type = "canal"    -> 20
                  [] farm.irrigation_type = "tubewell" -> 19
                  [] farm.irrigation_type = "rainfed"  -> 14
                  [] OTHER                             -> 16
            combined == 25 * ndvi_factor + 12 * water_factor + 4 * irrigation_factor
            value == MinYield * 400 + combined * (OptimalYield - MinYield)
        IN  Val(locals).predicted_yield =
                Clip(10 * value, MinYield * YieldUnit, OptimalYield * YieldUnit)

\* C3: the forecast YieldPredictor.predict returns for a feature vector is the
\* same on every call, whatever forecast calls were made before it.
C3_SameForecastEveryCall ==
    (forecast # None /\ first # None) => forecast = first

\* C8: the reported interval brackets the reported point estimate:
\* confidence_interval[0] <= predicted_yield_tons_per_hectare <=
\* confidence_interval[1], each rounded to two decimals independently.
C8_IntervalBrackets ==
    forecast # None =>
        /\ Val(forecast).confidence_interval[1]
              <= Val(forecast).predicted_yield_tons_per_hectare
        /\ Val(forecast).predicted_yield_tons_per_hectare
              <= Val(forecast).confidence_interval[2]

\* a forecast clipped to optimal_yield (so the upper bound lies above the
\* crop's range) whose three values are pairwise different
C8_Witness ==
    /\ forecast # None
    /\ Val(forecast).predicted_yield_tons_per_hectare = OptimalYield * 10
    /\ Val(forecast).confidence_interval[1] < OptimalYield * 10
    /\ Val(forecast).confidence_interval[2] > OptimalYield * 10

-----------------------------------------------------------------------------
(* Claims about the index pipeline *)

Band(name) == Val(image)[name][1]
One == Rat(1, 1)
MinusOne == Rat(-1, 1)
InUnitRange(x) == LessEq(MinusOne, x) /\ LessEq(x, One)

\* every band value of the scene is a reflectance in [0, 1]
ValidBands ==
    \A name \in {"blue", "green", "red", "nir"} :
        0 <= Band(name) /\ Band(name) <= Unit

\* C4: for band rasters with reflectance values in [0, 1], every value of the
\* NDVI, NDWI, SAVI and EVI rasters lies in [-1, 1].
C4_IndicesInRange ==
    (indices # None /\ ValidBands) =>
        \A name \in {"ndvi", "ndwi", "savi", "evi"} :
            \A i \in DOMAIN Val(indices)[name] :
                InUnitRange(Val(indices)[name][i])

\* a processed scene of valid bands whose EVI ratio exceeds 1 before the clip
\* (2.5 (NIR - Red) > NIR + 6 Red - 7.5 Blue + 1 > 0) and whose NDVI lies
\* strictly inside the range
C4_Witness ==
    /\ indices # None
    /\ ValidBands
    /\ Unit * Band("nir") + EVI_C1 * Band("red") - EVI_C2 * Band("blue")
          + Unit * EVI_L > 0
    /\ EVI_G * (Band("nir") - Band("red"))
          > Unit * Band("nir") + EVI_C1 * Band("red") - EVI_C2 * Band("blue")
            + Unit * EVI_L
    /\ Val(indices).evi[1] = One
    /\ Less(Rat(0, 1), Val(indices).ndvi[1])
    /\ Less(Val(indices).ndvi[1], One)

\* C5: a pixel whose denominator is exactly zero in one of the four formulas
\* makes no division fault: that index is a finite value within [-1, 1]
\* (the denominator having been replaced by 1e-10, the value is the sign of
\* the numerator).
C5_ZeroDenominatorFinite ==
    indices # None =>
        LET nir == Band("nir")
            red == Band("red")
            green == Band("green")
            blue == Band("blue")
            ind == Val(indices)
        IN  /\ nir + red = 0 =>
                  /\ IsFinite(ind.ndvi[1]) /\ InUnitRange(ind.ndvi[1])
                  /\ ind.ndvi[1] = Rat(Sgn(nir - red), 1)
            /\ green + nir = 0 =>
                  /\ IsFinite(ind.ndwi[1]) /\ InUnitRange(ind.ndwi[1])
                  /\ ind.ndwi[1] = Rat(Sgn(green - nir), 1)
            /\ nir + red + SAVI_L = 0 =>
                  /\ IsFinite(ind.savi[1]) /\ InUnitRange(ind.savi[1])
                  /\ ind.savi[1] = Rat(Sgn(nir - red), 1)
            /\ Unit * nir + EVI_C1 * red - EVI_C2 * blue + Unit * EVI_L = 0 =>
                  /\ IsFinite(ind.evi[1]) /\ InUnitRange(ind.evi[1])
                  /\ ind.evi[1] = Rat(Sgn(nir - red), 1)

\* a processed scene with NIR = Red = Green = 0, whose NDVI and NDWI are 0
C5_Witness ==
    /\ indices # None
    /\ Band("nir") = 0 /\ Band("red") = 0 /\ Band("green") = 0
    /\ Val(indices).ndvi[1] = Rat(0, 1)
    /\ Val(indices).ndwi[1] = Rat(0, 1)

\* a processed scene of valid bands whose EVI denominator
\* NIR + 6 Red - 7.5 Blue + 1 is zero, and whose EVI is 1 or -1
C5_WitnessEvi ==
    /\ indices # None
    /\ ValidBands
    /\ Unit * Band("nir") + EVI_C1 * Band("red") - EVI_C2 * Band("blue")
          + Unit * EVI_L = 0
    /\ Val(indices).evi[1] \in {One, MinusOne}

\* the code of the first matching rule: critical (0) if NDVI < 0.2 or
\* NDWI < -0.2; else stressed (1) if NDVI < 0.4 or NDWI < 0; else moderate (2)
\* if NDVI < 0.6; else healthy (3)
FirstRule(v, w) ==
    IF Less(v, Rat(1, 5)) \/ Less(w, Rat(-1, 5)) THEN 0
    ELSE IF Less(v, Rat(2, 5)) \/ Less(w, Rat(0, 1)) THEN 1
    ELSE IF Less(v, Rat(3, 5)) THEN 2
    ELSE 3

\* C6: classify_health_zones gives each pixel the code of the first matching
\* rule, in the order critical, stressed, moderate, healthy.
C6_FirstMatchingRule ==
    classified # None =>
        /\ DOMAIN Val(classified).zones = DOMAIN Val(indices).ndvi
        /\ \A i \in DOMAIN Val(classified).zones :
              Val(classified).zones[i] =
                  FirstRule(Val(indices).ndvi[i], Val(indices).ndwi[i])

\* a classified raster with a pixel of NDVI >= 0.6 and NDWI < -0.2 coded
\* critical, and a pixel of NDVI >= 0.6 and -0.2 <= NDWI < 0 coded stressed
C6_Witness ==
    /\ classified # None
    /\ \E i \in DOMAIN Val(indices).ndvi :
          /\ LessEq(Rat(3, 5), Val(indices).ndvi[i])
          /\ Less(Val(indices).ndwi[i], Rat(-1, 5))
          /\ Val(classified).zones[i] = 0
    /\ \E i \in DOMAIN Val(indices).ndvi :
          /\ LessEq(Rat(3, 5), Val(indices).ndvi[i])
          /\ LessEq(Rat(-1, 5), Val(indices).ndwi[i])
          /\ Less(Val(indices).ndwi[i], Rat(0, 1))
          /\ Val(classified).zones[i] = 1

C10_HealthScore ==
    score # None =>
        LET a == Val(indices).ndvi_mean[1] * (Unit \div Val(indices).ndvi_mean[2])
            b == Val(indices).ndwi_mean[1] * (Unit \div Val(indices).ndwi_mean[2])
            ndvi3 == Clip(25 * (a - 4), 0, 300)
            ndwi3 == Clip(25 * (b + 4), 0, 300)
            exact3 == 7 * ndvi3 + 3 * ndwi3     \* three times the tenths
        IN  /\ 2 * (3 * Val(score) - exact3) < 3
            /\ 2 * (exact3 - 3 * Val(score)) < 3
            /\ 0 <= Val(score) /\ Val(score) <= 1000

\* a score from means inside both normalisation ranges whose exact value is
\* not a whole number of tenths, so that the rounding acts
C10_Witness ==
    /\ score # None
    /\ Less(Rat(1, 5), Val(indices).ndvi_mean)
    /\ Less(Val(indices).ndvi_mean, Rat(4, 5))
    /\ Less(Rat(-1, 5), Val(indices).ndwi_mean)
    /\ Less(Val(indices).ndwi_mean, Rat(2, 5))
    /\ Val(score) % 10 # 0
    /\ Val(score) > 500

\* C11: compute_health_score is monotonically non-decreasing in each mean, the
\* other held fixed: a larger mean NDVI never gives a smaller score, and a
\* larger mean NDWI never gives a smaller score (rounding to one decimal
\* included).
C11_ScoreMonotonic ==
    score # None =>
        LET a == Val(indices).ndvi_mean
            b == Val(indices).ndwi_mean
        IN  \A k \in (-MeanMax)..MeanMax :
                /\ LessEq(a, Idx(k)) =>
                      Val(score) <= compute_health_score(
                                        [ndvi_mean |-> Idx(k), ndwi_mean |-> b])
                /\ LessEq(b, Idx(k)) =>
                      Val(score) <= compute_health_score(
                                        [ndvi_mean |-> a, ndwi_mean |-> Idx(k)])

\* a score from means strictly inside both normalisation ranges, which a
\* larger mean NDVI raises and a larger mean NDWI raises, each strictly
C11_Witness ==
    /\ score # None
    /\ Less(Rat(1, 5), Val(indices).ndvi_mean)
    /\ Less(Val(indices).ndvi_mean, Rat(4, 5))
    /\ Less(Rat(-1, 5), Val(indices).ndwi_mean)
    /\ Less(Val(indices).ndwi_mean, Rat(2, 5))
    /\ Val(score) < compute_health_score(
                        [ndvi_mean |-> Rat(4, 5),
                         ndwi_mean |-> Val(indices).ndwi_mean])
    /\ Val(score) < compute_health_score(
                        [ndvi_mean |-> Val(indices).ndvi_mean,
                         ndwi_mean |-> Rat(2, 5)])

-----------------------------------------------------------------------------
(* Claims about the failure of a forecast request *)

\* a forecast call has been made and has ended
Called == forecast # None \/ raised # None

\* C12: a forecast request for a feature vector whose area is <= 0 fails
\* with an InvalidFeatureVector error and produces no YieldPrediction (stated
\* for the crops of the reference table).
C12_NonPositiveAreaFails ==
    (Called /\ farm.crop_type \in CropType /\ farm.area_hectares <= 0) =>
        /\ raised = Some("InvalidFeatureVector")
        /\ forecast = None

\* C13: a forecast request whose crop type is absent from PAKISTAN_YIELDS
\* fails with an UnknownCropType error surfaced to the caller, and no
\* forecast value is returned.
C13_UnknownCropFails ==
    (Called /\ farm.crop_type \notin DOMAIN PAKISTAN_YIELDS) =>
        /\ raised = Some("UnknownCropType")
        /\ forecast = None

-----------------------------------------------------------------------------
(* Claims about process_image *)

\* the four bands of the scene, and its cloud mask if it has one, have the
\* same shape
SameShape ==
    LET img == Val(image)
    IN  /\ Len(img.blue) = Len(img.nir)
        /\ Len(img.green) = Len(img.nir)
        /\ Len(img.red) = Len(img.nir)
        /\ img.cloud_mask # None => Len(Val(img.cloud_mask)) = Len(img.nir)

\* process_image has been called and has ended
Processed == indices # None \/ raised # None

\* C14: when the band rasters or the cloud mask of a scene are not identically
\* shaped, process_image fails with a DimensionMismatch error and returns no
\* VegetationIndices.
C14_MismatchFails ==
    (Processed /\ ~SameShape) =>
        /\ raised = Some("DimensionMismatch")
        /\ indices = None

\* the pixels of the scene flagged as cloud: those where its cloud mask is
\* True, none when it has no cloud mask
Cloud ==
    IF Val(image).cloud_mask # None THEN Val(Val(image).cloud_mask)
    ELSE [i \in DOMAIN Val(image).red |-> FALSE]

\* the valid pixels: not flagged as cloud, NDVI strictly inside (-1, 1)
ValidPixels ==
    [i \in DOMAIN Val(indices).ndvi |->
        /\ ~Cloud[i]
        /\ Less(MinusOne, Val(indices).ndvi[i])
        /\ Less(Val(indices).ndvi[i], One)]

\* C15: the statistics process_image returns are computed over the valid
\* pixels only: a pixel flagged as cloud in the cloud mask contributes to none
\* of ndvi_mean, ndvi_std, ndwi_mean, ndwi_std, savi_mean, and every pixel not
\* flagged (with in-range index) contributes to each.  (The std fields are
\* held as their squares; stated for scenes of reflectances in [0, 1].)
C15_StatisticsOverValidPixels ==
    (indices # None /\ SameShape /\ ValidBands) =>
        LET ind == Val(indices)
            any == \E i \in DOMAIN ValidPixels : ValidPixels[i]
            MeanOver(x) == IF any THEN Mean(Selected(x, ValidPixels))
                           ELSE Rat(0, 1)
            StdOver(x) == IF any THEN StdSquared(Selected(x, ValidPixels))
                          ELSE Rat(0, 1)
        IN  /\ ind.ndvi_mean = MeanOver(ind.ndvi)
            /\ ind.ndvi_std = StdOver(ind.ndvi)
            /\ ind.ndwi_mean = MeanOver(ind.ndwi)
            /\ ind.ndwi_std = StdOver(ind.ndwi)
            /\ ind.savi_mean = MeanOver(ind.savi)

\* C16: when a scene has no valid pixel (every pixel masked as cloud or out
\* of range), process_image does not fail and returns ndvi_mean = ndvi_std =
\* ndwi_mean = ndwi_std = savi_mean = 0.  (Stated for scenes of reflectances
\* in [0, 1].)
C16_NoValidPixelZeros ==
    (Processed /\ SameShape /\ ValidBands /\ \A i \in DOMAIN Cloud :
                                  \/ Cloud[i]
                                  \/ ~Less(MinusOne, NdviPixel(Val(image).nir[i],
                                                               Val(image).red[i]))
                                  \/ ~Less(NdviPixel(Val(image).nir[i],
                                                     Val(image).red[i]), One)) =>
        /\ raised = None
        /\ indices # None
        /\ Val(indices).ndvi_mean = Rat(0, 1)
        /\ Val(indices).ndvi_std = Rat(0, 1)
        /\ Val(indices).ndwi_mean = Rat(0, 1)
        /\ Val(indices).ndwi_std = Rat(0, 1)
        /\ Val(indices).savi_mean = Rat(0, 1)

\* the band raster clamped to [0, 1]
Clamped(name) == [i \in DOMAIN Val(image)[name] |->
                     Clip(Val(image)[name][i], 0, Unit)]

\* C17: band values outside [0, 1] are clamped to [0, 1] before use: each
\* index raster process_image returns equals the one computed from the bands
\* clamped to [0, 1].
C17_BandsClamped ==
    indices # None =>
        /\ Val(indices).ndvi = compute_ndvi(Clamped("nir"), Clamped("red"))
        /\ Val(indices).ndwi = compute_ndwi(Clamped("nir"), Clamped("green"))
        /\ Val(indices).savi = compute_savi(Clamped("nir"), Clamped("red"))
        /\ Val(indices).evi =
              compute_evi(Clamped("nir"), Clamped("red"), Clamped("blue"))

-----------------------------------------------------------------------------
(* Claims about the time-series encoder *)

\* C18: encode of any sequence of length 0, 1 or 2 returns a summary of
\* exactly 8 elements, all zero, without failing; on every input length the
\* summary has exactly 8 elements.
C18_ShortSeriesZeros ==
    features # None =>
        /\ raised = None
        /\ Len(Val(features)) = 8
        /\ Len(farm.ndvi_series) < 3 =>
              \A i \in 1..8 : Val(features)[i] = Rat(0, 1)

\* the summary of a series of two non-zero readings that differ
C18_Witness ==
    /\ features # None
    /\ Len(farm.ndvi_series) = 2
    /\ Less(Rat(0, 1), farm.ndvi_series[1])
    /\ Less(farm.ndvi_series[1], farm.ndvi_series[2])
    /\ Val(features) = [i \in 1..8 |-> Rat(0, 1)]

-----------------------------------------------------------------------------
(* Claims about the comparison data of a forecast *)

\* C20: the percentile a forecast reports is clamp((predicted - min_yield) /
\* (optimal_yield - min_yield) * 100, 0, 100) rounded to the nearest integer:
\* it differs from the clamped ratio by at most one half (a ratio of 93.75
\* gives 94).
C20_PercentileNearest ==
    forecast # None =>
        LET den == (OptimalYield - MinYield) * YieldUnit
            num == Clip((Val(locals).predicted_yield - MinYield * YieldUnit) * 100,
                        0, 100 * den)
            percentile == Val(forecast).percentile
        IN  /\ 2 * (percentile * den - num) <= den
            /\ 2 * (num - percentile * den) <= den

-----------------------------------------------------------------------------
(* Claims about the end-to-end scenarios *)

\* C21: for the wheat farm with current_ndvi = 0.65, current_ndwi = 0.35 and
\* canal irrigation, every forecast has a predicted yield strictly greater
\* than wheat's min_yield (1.5) and strictly less than wheat's optimal_yield
\* (5.0), and a percentile above 50.
C21_WheatScenario ==
    (forecast # None /\ farm = WheatScenario) =>
        /\ 15 * YieldUnit < Val(locals).predicted_yield
        /\ Val(locals).predicted_yield < 50 * YieldUnit
        /\ 150 < Val(forecast).predicted_yield_tons_per_hectare
        /\ Val(forecast).predicted_yield_tons_per_hectare < 500
        /\ Val(forecast).percentile > 50

\* the zone percentages are 100% moderate and 0% critical, stressed, healthy
AllModerate ==
    /\ Val(classified).stats.moderate_percent = Rat(100, 1)
    /\ Val(classified).stats.critical_percent = Rat(0, 1)
    /\ Val(classified).stats.stressed_percent = Rat(0, 1)
    /\ Val(classified).stats.healthy_percent = Rat(0, 1)

\* the NDVI of every pixel is 0.35 / 0.65 = 7/13, about 0.538
NdviOfScenario ==
    \A i \in DOMAIN Val(indices).ndvi :
        /\ Val(indices).ndvi[i] = Rat(7, 13)
        /\ Less(Rat(538, 1000), Val(indices).ndvi[i])
        /\ Less(Val(indices).ndvi[i], Rat(539, 1000))

\* C22 as stated: for a scene with NIR = 0.5 and Red = 0.15 at every pixel and
\* no cloud mask, NDVI is about 0.538 at every pixel and classifying the
\* scene's NDVI and NDWI rasters yields 100% moderate and 0% critical,
\* stressed and healthy, for every green band with values in [0, 1].
C22_ScenarioModerate ==
    classified # None => (NdviOfScenario /\ AllModerate)

\* C22 as amended: NDVI is about 0.538 at every pixel for every green band,
\* and the classification is 100% moderate, 0% elsewhere, exactly when the
\* green band is at least 0.5 (the NIR value) at every pixel, so that no
\* pixel's NDWI is negative.
C22_ScenarioModerateIfGreen ==
    classified # None =>
        /\ NdviOfScenario
        /\ AllModerate <=>
              \A i \in DOMAIN Val(image).green : Val(image).green[i] >= 10

\* a classified scenario scene of two pixels with green 0.5 and 0.75, all
\* moderate
C22_Witness ==
    /\ classified # None
    /\ Val(image).green = <<10, 15>>
    /\ Val(classified).zones = <<2, 2>>
    /\ AllModerate

-----------------------------------------------------------------------------
(* Claims about the contributing factors of a forecast *)

\* C23: the key_factors list holds a positive "NDVI Index" entry iff
\* current_ndvi >= 0.6, a negative "NDVI Index" entry iff current_ndvi < 0.4
\* (so none for 0.4 <= current_ndvi < 0.6), and a negative "Water Stress"
\* entry iff current_ndwi < 0.1; it holds at most one NDVI entry and at most
\* two entries, and the NDVI entry precedes the water entry.
C23_KeyFactorThresholds ==
    forecast # None =>
        LET k == Val(forecast).key_factors
            Holds(e) == \E i \in DOMAIN k : k[i] = e
            ndvi_entries == {i \in DOMAIN k : k[i][1] = "NDVI Index"}
            water_entries == {i \in DOMAIN k : k[i][1] = "Water Stress"}
        IN  /\ Holds(<<"NDVI Index", "positive">>) <=> farm.current_ndvi >= 12
            /\ Holds(<<"NDVI Index", "negative">>) <=> farm.current_ndvi < 8
            /\ Holds(<<"Water Stress", "negative">>) <=> farm.current_ndwi < 2
            /\ ~Holds(<<"Water Stress", "positive">>)
            /\ Cardinality(ndvi_entries) <= 1
            /\ Len(k) <= 2
            /\ DOMAIN k = ndvi_entries \cup water_entries
            /\ \A i \in ndvi_entries, j \in water_entries : i < j

\* a forecast for current_ndvi = 0.6 and current_ndwi = 0.0, both on or next
\* to a threshold, that lists the positive NDVI entry before the water entry
C23_Witness ==
    /\ forecast # None
    /\ farm.current_ndvi = 12
    /\ farm.current_ndwi = 0
    /\ Val(forecast).key_factors =
          << <<"NDVI Index", "positive">>, <<"Water Stress", "negative">> >>

-----------------------------------------------------------------------------
(* The crop segmenter (models/segmentation.py): the statistics segment      *)
(* derives from the network's output.  The network itself is not            *)
(* represented: its output for an image is any class index 0 .. 5 at each   *)
(* pixel (the argmax of the softmax) with any confidence (its maximum).     *)

SegPixels == 2
ConfLevels == 2

\* the indices of SEGMENTATION_CLASSES
SEGMENTATION_CLASSES == 0..5

\* np.sum(mask_np == k)
CountOf(mask_np, k) == Cardinality({i \in DOMAIN mask_np : mask_np[i] = k})

\* mutant: the mean of the zone's confidences, taken of an empty zone as well
ZoneConfidenceUnguarded(confidence_np, mask_np, k) ==
    Mean(Selected(confidence_np, [i \in DOMAIN mask_np |-> mask_np[i] = k]))

\* float(np.mean(confidence_np[mask_np == k])) if zone_pixels > 0 else 0
ZoneConfidence(confidence_np, mask_np, k) ==
    IF CountOf(mask_np, k) > 0
    THEN Mean(Selected(confidence_np, [i \in DOMAIN mask_np |-> mask_np[i] = k]))
    ELSE Rat(0, 1)

\* one entry of health_zones, for the zone of class k
HealthZone(confidence_np, mask_np, k, crop_pixels) ==
    IF crop_pixels > 0
    THEN [percent |-> Mul(Rat(CountOf(mask_np, k), crop_pixels), Rat(100, 1)),
          area_pixels |-> CountOf(mask_np, k),
          confidence |-> ZoneConfidence(confidence_np, mask_np, k)]
    ELSE [percent |-> Rat(0, 1), area_pixels |-> 0, confidence |-> Rat(0, 1)]

\* the health_zones of segment's result
HealthZones(confidence_np, mask_np) ==
    LET crop_pixels == CountOf(mask_np, 1) + CountOf(mask_np, 2)
                       + CountOf(mask_np, 3)
    IN  [healthy  |-> HealthZone(confidence_np, mask_np, 1, crop_pixels),
         stressed |-> HealthZone(confidence_np, mask_np, 2, crop_pixels),
         diseased |-> HealthZone(confidence_np, mask_np, 3, crop_pixels)]

\* segmenter.segment(rgb, nir), from the network's output on
Segment ==
    /\ segmented # None
    /\ Val(segmented).health_zones = None
    /\ segmented' = Some([Val(segmented) EXCEPT !.health_zones =
            Some(HealthZones(Val(segmented).confidence, Val(segmented).mask))])
    /\ raised' = None
    /\ UNCHANGED <<rng, farm, locals, forecast, first, series, image,
                   indices, classified, score, features, db, response>>

\* the network's output for an image of 1 .. SegPixels pixels
InitSegment ==
    /\ rng = 0
    /\ farm = None
    /\ locals = None
    /\ forecast = None
    /\ first = None
    /\ series = None
    /\ features = None
    /\ raised = None
    /\ db = None
    /\ response = None
    /\ image = None
    /\ indices = None
    /\ classified = None
    /\ score = None
    /\ \E n \in 1..SegPixels :
          \E mask_np \in [1..n -> SEGMENTATION_CLASSES],
             confidence_np \in [1..n -> {Rat(c, ConfLevels) : c \in 1..ConfLevels}] :
                segmented = Some([mask |-> mask_np, confidence |-> confidence_np,
                                  health_zones |-> None])

SpecSegment == InitSegment /\ [][Segment]_vars

\* the class index of each health zone
ZoneClass == [healthy |-> 1, stressed |-> 2, diseased |-> 3]

\* segment has returned
Segmented == segmented # None /\ Val(segmented).health_zones # None

\* C24: a health zone with no pixel has percent 0 and confidence 0, whether
\* or not the mask holds other crop pixels, and no zone's percent or
\* confidence is NaN, the mask without any crop pixel included.
C24_EmptyZoneZeros ==
    Segmented =>
        \A z \in DOMAIN ZoneClass :
            LET zone == Val(Val(segmented).health_zones)[z]
            IN  /\ ~IsNaN(zone.percent)
                /\ ~IsNaN(zone.confidence)
                /\ CountOf(Val(segmented).mask, ZoneClass[z]) = 0
                     => zone.percent = Rat(0, 1) /\ zone.confidence = Rat(0, 1)

\* a mask with stressed pixels and no healthy one has been segmented
C24_Witness ==
    /\ Segmented
    /\ CountOf(Val(segmented).mask, 1) = 0
    /\ CountOf(Val(segmented).mask, 2) > 0
    /\ Val(Val(segmented).health_zones).healthy.confidence = Rat(0, 1)

-----------------------------------------------------------------------------
(* Claims about the pixels process_image counts *)

\* the mask entry of each pixel of the scene: its cloud mask's, true where
\* the scene has no cloud mask
MaskEntry ==
    IF Val(image).cloud_mask # None THEN Val(Val(image).cloud_mask)
    ELSE [i \in DOMAIN Val(image).red |-> TRUE]

\* the pixels whose mask entry is true and whose NDVI is strictly inside
\* (-1, 1)
Contributing ==
    [i \in DOMAIN Val(indices).ndvi |->
        /\ MaskEntry[i]
        /\ Less(MinusOne, Val(indices).ndvi[i])
        /\ Less(Val(indices).ndvi[i], One)]

\* the five statistics of the result are all 0
StatisticsZero ==
    /\ Val(indices).ndvi_mean = Rat(0, 1)
    /\ Val(indices).ndvi_std = Rat(0, 1)
    /\ Val(indices).ndwi_mean = Rat(0, 1)
    /\ Val(indices).ndwi_std = Rat(0, 1)
    /\ Val(indices).savi_mean = Rat(0, 1)

NoValidPixel ==
    \A i \in DOMAIN Val(indices).ndvi :
        \/ (Val(image).cloud_mask # None /\ Val(Val(image).cloud_mask)[i])
        \/ ~Less(MinusOne, Val(indices).ndvi[i])
        \/ ~Less(Val(indices).ndvi[i], One)

\* C26: a scene with no valid pixel does not score 0: process_image followed
\* by compute_health_score gives exactly 10.0, for every such scene.  (The
\* score is held in tenths.)
C26_NoValidPixelScoresTen ==
    (indices # None /\ score # None /\ NoValidPixel) => Val(score) = 100

\* the scenes none of whose pixels process_image counts score 10.0
ScoreOfZeroedMeans ==
    (indices # None /\ score # None
        /\ \A i \in DOMAIN Contributing : ~Contributing[i]) => Val(score) = 100

-----------------------------------------------------------------------------
(* Claims about the relations between the encoder's features *)

-----------------------------------------------------------------------------
(* The backend's farm endpoints (backend/app/api/farms.py) over the farms   *)
(* table.  A request carries the authenticated user, current_user, whom     *)
(* get_current_user supplies; the table starts empty and ids are given out  *)
(* in sequence.  Of a farm the owner, the crop and the health score are     *)
(* kept.                                                                    *)

MaxFarms == 2

\* the authenticated users: int(current_user["user_id"])
Users == {1, 2}

\* a farm_id a request may name: a stored farm's, a deleted farm's, or none's
FarmIds == 1..(MaxFarms + 1)

\* mutant: the farm of that id, whoever owns it
FarmById(farms, farm_id, user_id) == {f \in farms : f.id = farm_id}

\* select(Farm).where(Farm.id == farm_id, Farm.farmer_id == user_id)
OwnFarm(farms, farm_id, user_id) ==
    {f \in farms : f.id = farm_id /\ f.farmer_id = user_id}

\* select(Farm).where(Farm.farmer_id == user_id)
FarmsOf(farms, user_id) == {f \in farms : f.farmer_id = user_id}

\* health_status of get_farm_health_summary
HealthStatus(health_score) ==
    IF health_score = None \/ Val(health_score) = 0 THEN "Unknown"
    ELSE IF Val(health_score) >= 80 THEN "Healthy"
    ELSE IF Val(health_score) >= 60 THEN "Moderate"
    ELSE IF Val(health_score) >= 40 THEN "Stressed"
    ELSE "Critical"

\* what a request and its answer are recorded as: the endpoint, the caller,
\* the id named (0 if none), the status code, the farms returned or deleted,
\* and the health_status of a summary
Answer(call, user_id, id, status, farms, health_status) ==
    Some([call |-> call, user |-> user_id, id |-> id, status |-> status,
          farms |-> farms, health_status |-> health_status])

Backend(next) ==
    /\ db # None
    /\ next
    /\ raised' = None
    /\ UNCHANGED <<rng, farm, locals, forecast, first, series, image,
                   indices, classified, score, features, segmented>>

\* POST /farms/
create_farm(user_id, current_crop) ==
    /\ db.farm_seq < MaxFarms
    /\ LET new == [id |-> db.farm_seq + 1, farmer_id |-> user_id,
                   current_crop |-> current_crop, health_score |-> None]
       IN  /\ db' = [db EXCEPT !.farms = @ \cup {new},
                               !.farm_seq = @ + 1]
           /\ response' = Answer("create_farm", user_id, 0, 201, {new}, "")

\* GET /farms/
get_farms(user_id) ==
    /\ response' = Answer("get_farms", user_id, 0, 200,
                          FarmsOf(db.farms, user_id), "")
    /\ UNCHANGED db

\* GET /farms/{farm_id}
get_farm(user_id, farm_id) ==
    /\ response' = IF OwnFarm(db.farms, farm_id, user_id) = {}
                   THEN Answer("get_farm", user_id, farm_id, 404, {}, "")
                   ELSE Answer("get_farm", user_id, farm_id, 200,
                               OwnFarm(db.farms, farm_id, user_id), "")
    /\ UNCHANGED db

\* GET /farms/{farm_id}/health-summary
get_farm_health_summary(user_id, farm_id) ==
    /\ response' =
          IF OwnFarm(db.farms, farm_id, user_id) = {}
          THEN Answer("get_farm_health_summary", user_id, farm_id, 404, {}, "")
          ELSE LET found == CHOOSE f \in OwnFarm(db.farms, farm_id, user_id) : TRUE
               IN  Answer("get_farm_health_summary", user_id, farm_id, 200,
                          {found}, HealthStatus(found.health_score))
    /\ UNCHANGED db

\* DELETE /farms/{farm_id}, of a farm to which no prediction, health record
\* or alert refers
delete_farm(user_id, farm_id) ==
    IF OwnFarm(db.farms, farm_id, user_id) = {}
    THEN /\ response' = Answer("delete_farm", user_id, farm_id, 404, {}, "")
         /\ UNCHANGED db
    ELSE /\ db' = [db EXCEPT !.farms = @ \ OwnFarm(db.farms, farm_id, user_id)]
         /\ response' = Answer("delete_farm", user_id, farm_id, 204,
                               OwnFarm(db.farms, farm_id, user_id), "")

\* the crop a farm is registered with: none, or wheat
Crops == {None, Some("wheat")}

\* the empty tables
EmptyTables ==
    [farms |-> {}, farm_seq |-> 0, predictions |-> {}, prediction_seq |-> 0]

InitBackend ==
    /\ rng = 0
    /\ farm = None
    /\ locals = None
    /\ forecast = None
    /\ first = None
    /\ series = None
    /\ image = None
    /\ indices = None
    /\ classified = None
    /\ score = None
    /\ features = None
    /\ raised = None
    /\ segmented = None
    /\ response = None

InitFarms ==
    /\ InitBackend
    /\ db = EmptyTables

NextFarms ==
    \/ \E user_id \in Users, current_crop \in Crops :
          Backend(create_farm(user_id, current_crop))
    \/ \E user_id \in Users : Backend(get_farms(user_id))
    \/ \E user_id \in Users, farm_id \in FarmIds :
          Backend(get_farm(user_id, farm_id))
    \/ \E user_id \in Users, farm_id \in FarmIds :
          Backend(get_farm_health_summary(user_id, farm_id))
    \/ \E user_id \in Users, farm_id \in FarmIds :
          Backend(delete_farm(user_id, farm_id))

SpecFarms == InitFarms /\ [][NextFarms]_vars

\* the stored farm of the id the last request named, if there is one
Named(farms, r) == {f \in farms : f.id = r.id}

\* what C28 requires of one request, from the tables before it to the
\* tables after it
OwnFarmsOnly ==
    LET r == Val(response')
    IN  /\ \A f \in r.farms : f.farmer_id = r.user
        /\ (/\ r.call \in {"get_farm", "get_farm_health_summary", "delete_farm"}
            /\ \E f \in Named(db.farms, r) : f.farmer_id # r.user)
             => r.status = 404 /\ r.farms = {} /\ db'.farms = db.farms
        /\ (/\ r.call = "delete_farm"
            /\ \E f \in Named(db.farms, r) : f.farmer_id = r.user)
             => db'.farms = db.farms \ Named(db.farms, r)
        /\ r.call # "delete_farm" => db.farms \subseteq db'.farms

\* C28: after any sequence of create_farm, get_farms, get_farm,
\* get_farm_health_summary and delete_farm calls by several users, a call by
\* user U returns or deletes only farms whose farmer_id is U: get_farm,
\* get_farm_health_summary and delete_farm on another user's farm answer 404
\* and leave the stored farms unchanged, and delete_farm on an own farm
\* removes that farm only.
C28_OwnFarmsOnly == [][OwnFarmsOnly]_vars

\* a user has asked to delete the farm of another user, which is still stored
C28_Witness ==
    /\ response # None
    /\ Val(response).call = "delete_farm"
    /\ Val(response).status = 404
    /\ \E f \in db.farms :
          f.id = Val(response).id /\ f.farmer_id # Val(response).user
    /\ \E f \in db.farms : f.farmer_id = Val(response).user

-----------------------------------------------------------------------------
(* The backend's yield endpoints (backend/app/api/predictions.py) over the  *)
(* farms and yield_predictions tables: predict_yield, which stores a        *)
(* prediction, and record_actual_yield.  Of a prediction the farm, the      *)
(* crop and the two fields of the actual yield are kept; the numbers of     *)
(* the prediction itself are not represented.                               *)

MaxPredictions == 2
MaxTons == 1
MaxClock == 1

\* a prediction_id a request may name: a stored prediction's, or none's
PredictionIds == 1..(MaxPredictions + 1)

\* the crop_type of a YieldPredictionRequest: none, or rice
RequestCrops == {None, Some("rice")}

\* an answer of the yield endpoints: the endpoint, the caller, the id named
\* and the status code
YieldAnswer(call, user_id, id, status) ==
    Some([call |-> call, user |-> user_id, id |-> id, status |-> status])

\* POST /predictions/predict
predict_yield(user_id, farm_id, request_crop) ==
    IF OwnFarm(db.farms, farm_id, user_id) = {}
    THEN /\ response' = YieldAnswer("predict_yield", user_id, farm_id, 404)
         /\ UNCHANGED db
    ELSE LET found == CHOOSE f \in OwnFarm(db.farms, farm_id, user_id) : TRUE
             crop_type == IF request_crop # None THEN request_crop
                          ELSE found.current_crop
         IN  IF crop_type = None
             THEN /\ response' = YieldAnswer("predict_yield", user_id, farm_id, 400)
                  /\ UNCHANGED db
             ELSE /\ db.prediction_seq < MaxPredictions
                  /\ db' = [db EXCEPT
                        !.predictions = @ \cup
                            {[id |-> db.prediction_seq + 1,
                              farm_id |-> found.id,
                              crop_type |-> Val(crop_type),
                              actual_yield_tons |-> None,
                              actual_recorded_date |-> None]},
                        !.prediction_seq = @ + 1]
                  /\ response' = YieldAnswer("predict_yield", user_id, farm_id, 200)

\* mutant: anyone may record the actual yield of a prediction
OwnsFarmOfAny(farms, prediction, user_id) == TRUE

\* the farm of the prediction is the caller's:
\* select(Farm).where(Farm.id == prediction.farm_id, Farm.farmer_id == user_id)
OwnsFarmOf(farms, prediction, user_id) ==
    OwnFarm(farms, prediction.farm_id, user_id) # {}

\* POST /predictions/record-actual/{prediction_id}, called at the time now.
\* The answer's error_percent divides by actual_yield_tons after the commit:
\* for an actual yield of 0 the fields are stored and the request ends in a
\* ZeroDivisionError, a 500.
record_actual_yield(user_id, prediction_id, actual_yield_tons, now) ==
    LET found == {q \in db.predictions : q.id = prediction_id}
    IN  IF found = {}
        THEN /\ response' = YieldAnswer("record_actual_yield", user_id,
                                        prediction_id, 404)
             /\ UNCHANGED db
        ELSE LET prediction == CHOOSE q \in found : TRUE
             IN  IF ~OwnsFarmOf(db.farms, prediction, user_id)
                 THEN /\ response' = YieldAnswer("record_actual_yield", user_id,
                                                 prediction_id, 403)
                      /\ UNCHANGED db
                 ELSE /\ db' = [db EXCEPT !.predictions = (@ \ found) \cup
                            {[prediction EXCEPT
                                !.actual_yield_tons = Some(actual_yield_tons),
                                !.actual_recorded_date = Some(now)]}]
                      /\ response' = YieldAnswer("record_actual_yield", user_id,
                            prediction_id,
                            IF actual_yield_tons = 0 THEN 500 ELSE 200)

\* each user has registered one farm, the first with a crop and the second
\* without
InitYields ==
    /\ InitBackend
    /\ db = [EmptyTables EXCEPT
                !.farms = {[id |-> 1, farmer_id |-> 1,
                            current_crop |-> Some("wheat"), health_score |-> None],
                           [id |-> 2, farmer_id |-> 2,
                            current_crop |-> None, health_score |-> None]},
                !.farm_seq = 2]

NextYields ==
    \/ \E user_id \in Users, farm_id \in FarmIds, request_crop \in RequestCrops :
          Backend(predict_yield(user_id, farm_id, request_crop))
    \/ \E user_id \in Users, prediction_id \in PredictionIds,
          actual_yield_tons \in 0..MaxTons, now \in 1..MaxClock :
          Backend(record_actual_yield(user_id, prediction_id,
                                      actual_yield_tons, now))

SpecYields == InitYields /\ [][NextYields]_vars

\* the two fields of the actual yield, of each stored prediction
Actuals(predictions) ==
    {<<q.id, q.actual_yield_tons, q.actual_recorded_date>> : q \in predictions}

\* what C29 requires of one record_actual_yield request
RecordsOwnOnly ==
    LET r == Val(response')
        named == {q \in db.predictions : q.id = r.id}
        own == {q \in named : \E f \in db.farms :
                                  f.id = q.farm_id /\ f.farmer_id = r.user}
    IN  r.call = "record_actual_yield" =>
            /\ named = {} =>
                  r.status = 404 /\ Actuals(db'.predictions) = Actuals(db.predictions)
            /\ (named # {} /\ own = {}) =>
                  r.status = 403 /\ Actuals(db'.predictions) = Actuals(db.predictions)
            /\ own # {} =>
                  /\ r.status \notin {403, 404}
                  /\ \A q \in db'.predictions :
                        IF q.id = r.id
                        THEN q.actual_yield_tons # None
                             /\ q.actual_recorded_date # None
                        ELSE q \in db.predictions

\* C29: record_actual_yield answers 404 when the prediction id does not exist
\* and 403 when the prediction's farm is not owned by the caller, in both
\* cases changing no stored prediction's actual_yield_tons or
\* actual_recorded_date; only for an existing prediction on the caller's own
\* farm are those two fields, of that one prediction, set.
C29_RecordsOwnOnly == [][RecordsOwnOnly]_vars

\* a user has been refused the recording of the actual yield of a prediction
\* for another user's farm, while an actual yield is on record for another
C29_Witness ==
    /\ response # None
    /\ Val(response).call = "record_actual_yield"
    /\ Val(response).status = 403
    /\ \E q \in db.predictions :
          q.id = Val(response).id /\ q.actual_yield_tons = None
    /\ \E q \in db.predictions : q.actual_yield_tons # None

-----------------------------------------------------------------------------
(* XGBoostYieldModel.prepare_features: the feature vector of a farm.  Every *)
(* entry is held as an exact value <<n, d>>.                                 *)

\* XGBoostYieldModel.feature_names
feature_names ==
    <<"ndvi_mean", "ndvi_std", "ndvi_max", "ndvi_min",
      "ndvi_trend", "ndvi_current", "ndvi_avg_change", "ndvi_max_change",
      "current_ndwi", "current_savi",
      "temperature", "rainfall", "humidity",
      "soil_ph", "soil_n", "soil_p", "soil_k",
      "area_hectares", "fertilizer_kg",
      "irrigation_canal", "irrigation_tubewell", "irrigation_rainfed",
      "days_since_planting">>

\* mutant: a type that is none of the three counts as rainfed
OneHotOrRainfed(irrigation_type, name) ==
    IF \/ irrigation_type = name
       \/ (name = "rainfed" /\ irrigation_type \notin {"canal", "tubewell"})
    THEN Rat(1, 1) ELSE Rat(0, 1)

\* 1 if farm.irrigation_type == name else 0
OneHot(irrigation_type, name) ==
    IF irrigation_type = name THEN Rat(1, 1) ELSE Rat(0, 1)

\* prepare_features(farm), called on the day now
prepare_features(f, now) ==
    LET ndvi_features == encode(f.ndvi_series)
        irrigation_canal == OneHot(f.irrigation_type, "canal")
        irrigation_tubewell == OneHot(f.irrigation_type, "tubewell")
        irrigation_rainfed == OneHot(f.irrigation_type, "rainfed")
        days_since_planting == Rat(now - f.planting_date, 1)
    IN  ndvi_features
        \o <<f.current_ndwi, f.current_savi>>
        \o <<f.avg_temperature, f.total_rainfall_mm, f.humidity_percent>>
        \o <<f.soil_ph, f.soil_nitrogen, f.soil_phosphorus, f.soil_potassium>>
        \o <<f.area_hectares, f.fertilizer_applied_kg>>
        \o <<irrigation_canal, irrigation_tubewell, irrigation_rainfed>>
        \o <<days_since_planting>>

\* xgb_model.prepare_features(farm)
PrepareFeatures(now) ==
    /\ features' = Some(prepare_features(farm, now))
    /\ raised' = None
    /\ UNCHANGED <<rng, farm, locals, forecast, first, series, image,
                   indices, classified, score, segmented, db, response>>

\* the sample farm of the module's example, with an NDVI history of any
\* length 0 .. MaxSeries and any irrigation type
SampleFarm(ndvi_series, irrigation_type) ==
    [ndvi_series |-> ndvi_series,
     current_ndwi |-> Rat(35, 100), current_savi |-> Rat(58, 100),
     avg_temperature |-> Rat(22, 1), total_rainfall_mm |-> Rat(150, 1),
     humidity_percent |-> Rat(65, 1), soil_ph |-> Rat(72, 10),
     soil_nitrogen |-> Rat(180, 1), soil_phosphorus |-> Rat(25, 1),
     soil_potassium |-> Rat(150, 1), area_hectares |-> Rat(2, 1),
     fertilizer_applied_kg |-> Rat(150, 1),
     irrigation_type |-> irrigation_type, planting_date |-> 1]

InitPrepare ==
    /\ rng = 0
    /\ \E n \in 0..MaxSeries :
          \E ndvi_series \in SeriesOf({Idx(9), Idx(13)}, n),
             irrigation_type \in IrrigationType :
                farm = SampleFarm(ndvi_series, irrigation_type)
    /\ locals = None
    /\ forecast = None
    /\ first = None
    /\ series = None
    /\ image = None
    /\ indices = None
    /\ classified = None
    /\ score = None
    /\ features = None
    /\ raised = None
    /\ segmented = None
    /\ db = None
    /\ response = None

NextPrepare == \E now \in 0..MaxClock : PrepareFeatures(now)

SpecPrepare == InitPrepare /\ [][NextPrepare]_vars

\* the place of a name in feature_names
Place(name) == CHOOSE i \in DOMAIN feature_names : feature_names[i] = name

\* C30: prepare_features returns exactly 23 entries, as many as there are
\* feature_names, for every history length (the first 8 entries are zero for
\* the lengths 0 to 2) and every irrigation type; the three irrigation
\* one-hot entries sum to 1 for canal, tubewell and rainfed and to 0 for any
\* other type.
C30_FeatureVectorShape ==
    features # None =>
        LET f == Val(features)
            one_hot == Add(f[Place("irrigation_canal")],
                           Add(f[Place("irrigation_tubewell")],
                               f[Place("irrigation_rainfed")]))
        IN  /\ Len(f) = 23
            /\ Len(f) = Len(feature_names)
            /\ Len(farm.ndvi_series) < 3 =>
                  \A i \in 1..8 : f[i] = Rat(0, 1)
            /\ one_hot = IF farm.irrigation_type \in {"canal", "tubewell", "rainfed"}
                         THEN Rat(1, 1) ELSE Rat(0, 1)

\* the features of a farm with a history of two readings and an irrigation
\* type that is none of the three have been prepared
C30_Witness ==
    /\ features # None
    /\ Len(farm.ndvi_series) = 2
    /\ farm.irrigation_type = "drip"
    /\ Len(Val(features)) = 23
    /\ Val(features)[Place("irrigation_rainfed")] = Rat(0, 1)

=============================================================================
